---- MODULE Spec2Model ----
(***************************************************************************)
(* iamtune/aws.py: AwsClient (retry wrapper, cursor pagination, the        *)
(* access-analysis job) and IamReader (role profile assembly), run         *)
(* against a remote IAM API that may throttle or fail any call.            *)
(*                                                                         *)
(* One behaviour is one call of one entry point by a caller that consumes  *)
(* the result completely.  Every remote invocation and every time.sleep    *)
(* is appended to `trace`.                                                 *)
(***************************************************************************)
EXTENDS Integers, Sequences, FiniteSets, TLC

\* ------------------------------------------------------------------ bounds
MaxPages     == 3   \* pages of one remote listing
MaxPageItems == 2   \* items on one page
MaxThrottle  == 2   \* rate-limit errors the remote raises in one run
MaxVersions  == 3   \* versions of one managed policy
MaxPolls     == 3   \* length of the job's status script

\* ------------------------------------------------------- program constants
SleepSeconds == 5   \* time.sleep(5), in the retry loop and in the poll loop

NoMarker     == 0   \* response.get("Marker") is None: the page carries no cursor

\* --------------------------------------------------------- identifiers
RoleName  == "Deploy"       \* the role_name argument
RoleArn   == "arn:Deploy"   \* Role["Arn"] of that role
PolicyArn == "arn:p1"       \* the policy_arn argument of _get_latest_version_id
JobId     == "job-1"        \* JobId the remote gives to a submitted job

RateLimitCode == "LimitExceededException"

NoErr == [type |-> "none", code |-> ""]
ClientError(c) == [type |-> "ClientError", code |-> c]
TypeError == [type |-> "TypeError", code |-> ""]

\* What one invocation fun() of a remote operation can do: return a
\* response, or raise.  ConnectionError stands for the exceptions of the
\* transport that are no ClientError.
Raises == { ClientError(RateLimitCode), ClientError("AccessDenied"),
            [type |-> "ConnectionError", code |-> ""] }
Outcomes == {NoErr} \cup Raises

\* ------------------------------------------------------------ sequences
RECURSIVE Concat(_)
Concat(ss) == IF ss = <<>> THEN <<>> ELSE Head(ss) \o Concat(Tail(ss))

RECURSIVE SumLen(_)
SumLen(ss) == IF ss = <<>> THEN 0 ELSE Len(Head(ss)) + SumLen(Tail(ss))

Count(s, P(_)) == Cardinality({i \in DOMAIN s : P(s[i])})

\* The listings the remote can hold: pages of items, the items numbered
\* 101, 102, ... in listing order.
\* A listing of pages of sizes sz[1], sz[2], ...
PagesOfSizes(sz) ==
    [k \in DOMAIN sz |->
        [j \in 1..sz[k] |-> 100 + SumLen([i \in 1..(k-1) |-> [x \in 1..sz[i] |-> 0]]) + j]]

ListingsUpTo(pages, items) ==
    { PagesOfSizes(sz) : sz \in UNION {[1..n -> 0..items] : n \in 1..pages} }

Listings == ListingsUpTo(MaxPages, MaxPageItems)

OnePage == <<<<101>>>>
TwoPages == <<<<101>>, <<102>>>>

\* The statuses successive polls of a job report: RUNNING any number of
\* times, then a terminal status (or RUNNING for the whole script).  The
\* last status of the script is repeated for any later poll.
RECURSIVE Running(_)
Running(n) == IF n = 0 THEN <<>> ELSE <<"RUNNING">> \o Running(n - 1)

JobScripts ==
    { Running(k) \o <<last>> : k \in 0..(MaxPolls - 1),
                               last \in {"RUNNING", "FAILED", "COMPLETED"} }

\* Version lists with pairwise distinct CreateDate (a timestamp, here a
\* number); VersionId i is the i-th version the remote lists.
Dates == 1..(MaxVersions + 1)

InjectiveSeqs(S, n) == { s \in [1..n -> S] : \A i, j \in 1..n : s[i] = s[j] => i = j }

VersionLists ==
    { [i \in DOMAIN ds |-> [VersionId |-> i, CreateDate |-> ds[i]]] :
        ds \in UNION { InjectiveSeqs(Dates, n) : n \in 1..MaxVersions } }

\* -------------------------------------------------------------- state
VARIABLES
    entry,      \* the entry point this run calls
    remote,     \* what the remote side holds; the program only reads it
    pc,         \* where the run stands
    retry,      \* _retried_call: "call" before fun(), "sleep" before time.sleep
    fun,        \* _paginated_request: the bound operation of the next fetch
    response,   \* the local `response` of the frame that made the last call
    yielded,    \* what the caller of a generator entry point has received
    job_id,     \* get_last_accessed_details: job_id
    result,     \* the value the entry point returned
    err,        \* the exception that reached the caller, NoErr if none
    trace,      \* every fun() invocation and every time.sleep, in order
    requests    \* describe_role calls running concurrently on one IamReader:
                \* for each its role_name, where it stands, its result and
                \* the exception that reached its caller

locals == <<fun, response, yielded, job_id, result>>
vars == <<entry, remote, pc, retry, locals, err, trace, requests>>

Entries == {"list_roles", "get_last_accessed_details", "describe_role",
            "list_attached_policies", "_get_latest_version_id"}

None == [none |-> TRUE]

\* functools.partial(self._boto_client.<op>, **kwargs): the keyword
\* arguments are key (RoleName, PolicyArn, Arn or JobId), name (PolicyName)
\* and Marker.
Bound(op, key, name) == [op |-> op, key |-> key, name |-> name, Marker |-> NoMarker]

PartialKeepsFirst(f, marker) ==
    IF f.Marker = NoMarker THEN [f EXCEPT !.Marker = marker] ELSE f

\* functools.partial(fun, Marker=marker): a later Marker replaces an
\* earlier one, every other keyword argument is kept.
Partial(f, marker) == [f EXCEPT !.Marker = marker]

\* ------------------------------------------------------------- trace
CallEvent(f, out) ==
    [ev |-> "call", op |-> f.op, key |-> f.key, name |-> f.name, Marker |-> f.Marker,
     secs |-> 0,
     out |-> IF out = NoErr THEN "ok" ELSE IF out.type = "ClientError" THEN out.code
             ELSE out.type]
SleepEvent(why) ==
    [ev |-> "sleep", op |-> why, key |-> "", name |-> 0, Marker |-> NoMarker,
     secs |-> SleepSeconds, out |-> ""]

IsCall(e) == e.ev = "call"
IsOk(e) == e.ev = "call" /\ e.out = "ok"
IsThrottled(e) == e.ev = "call" /\ e.out = RateLimitCode
IsBackoff(e) == e.ev = "sleep" /\ e.op = "retry"
IsPollWait(e) == e.ev = "sleep" /\ e.op = "poll"
IsPoll(e) == IsOk(e) /\ e.op = "get_service_last_accessed_details"

\* ------------------------------------------------------------ remote
\* Page Marker+1 of a listing, with the cursor of the next page if any.
Page(pages, marker) ==
    [items |-> pages[marker + 1],
     Marker |-> IF marker + 1 < Len(pages) THEN marker + 1 ELSE NoMarker]

\* The status the next poll reports.
JobStatus == 
    LET n == Count(trace, IsPoll) + 1
    IN  remote.job[IF n < Len(remote.job) THEN n ELSE Len(remote.job)]

\* The response of a successful invocation f().
Respond(f) ==
    CASE f.op = "list_roles" ->
            [Roles |-> Page(remote.roles, f.Marker).items,
             Marker |-> Page(remote.roles, f.Marker).Marker]
      [] f.op = "generate_service_last_accessed_details" ->
            [JobId |-> JobId]
      [] f.op = "get_service_last_accessed_details" ->
            [JobStatus |-> JobStatus,
             ServicesLastAccessed |-> Page(remote.records, f.Marker).items,
             Marker |-> Page(remote.records, f.Marker).Marker]

\* The remote raises at most MaxThrottle rate-limit errors in one run.
MayRaise(out) ==
    out = ClientError(RateLimitCode) => Count(trace, IsThrottled) < MaxThrottle

\* ------------------------------------------------------------ Python
TruthyNever(marker) == FALSE

\* `if marker:`
Truthy(marker) == marker # NoMarker

\* iter(d) and list(d) of a dict d: its keys.
DictKeys(d) == DOMAIN d

\* x[key] for a str key: defined on a dict that has the key; a list takes
\* integer indices only.
Subscript(x, kind, key) ==
    IF kind = "dict" /\ key \in DOMAIN x
    THEN [raised |-> NoErr, value |-> x[key]]
    ELSE [raised |-> TypeError, value |-> None]

\* The parameters of the two helpers, lines 71 and 78: `fun` alone,
\* neither takes keyword arguments.
Parameters(method) ==
    CASE method = "_request" -> {"fun"}
      [] method = "_paginated_request" -> {"fun"}

\* Binding the arguments of a call self.<method>(fun, **kwargs): a keyword
\* that is no parameter of the method is a TypeError, raised before the
\* body of the method runs.
BindCall(method, kwargs) ==
    IF kwargs \subseteq Parameters(method) THEN NoErr ELSE TypeError

\* ---------------------------------------------------- _retried_call
RetriedCallGivesUp(out) ==
    IF out = NoErr THEN "return"
    ELSE IF out.type = "ClientError" /\ out.code = RateLimitCode
              /\ Count(trace, IsThrottled) = 0 THEN "sleep"
    ELSE "raise"

RetriedCallRetriesAll(out) ==
    IF out = NoErr THEN "return"
    ELSE IF out.type = "ClientError" THEN "sleep"
    ELSE "raise"

\* One pass of the while-loop on the outcome of fun(): return the
\* response, sleep and go round again, or let the exception out.
RetriedCall(out) ==
    IF out = NoErr THEN "return"
    ELSE IF out.type = "ClientError" /\ out.code = RateLimitCode THEN "sleep"
    ELSE "raise"

Invoke(f, out) == MayRaise(out) /\ trace' = Append(trace, CallEvent(f, out))

ThrottledRestarts ==
    /\ retry' = "sleep"
    /\ fun' = [fun EXCEPT !.Marker = NoMarker]
    /\ UNCHANGED <<pc, response, yielded, job_id, result, err>>

ThrottledResubmits ==
    /\ retry' = "sleep"
    /\ pc' = IF pc = "poll" THEN "submit" ELSE pc
    /\ UNCHANGED <<locals, err>>

Throttled == retry' = "sleep" /\ UNCHANGED <<pc, locals, err>>

RaiseWithPartial(e) ==
    /\ pc' = "raised" /\ err' = e
    /\ result' = [RoleName |-> RoleName]
    /\ UNCHANGED <<retry, fun, response, yielded, job_id>>

RaiseWrapped(e) ==
    /\ pc' = "raised"
    /\ err' = [type |-> "RemoteOperationFailed", code |-> e.code]
    /\ UNCHANGED <<retry, locals>>

Raise(e) == pc' = "raised" /\ err' = e /\ UNCHANGED <<retry, locals>>

BackoffGrows ==
    /\ retry = "sleep"
    /\ retry' = "call"
    /\ trace' = Append(trace, [SleepEvent("retry") EXCEPT
                                 !.secs = SleepSeconds * (Count(trace, IsBackoff) + 1)])
    /\ UNCHANGED <<entry, remote, requests, pc, locals, err>>

\* time.sleep(5) of line 87, then the next pass of the loop.
Backoff ==
    /\ retry = "sleep"
    /\ retry' = "call"
    /\ trace' = Append(trace, SleepEvent("retry"))
    /\ UNCHANGED <<entry, remote, requests, pc, locals, err>>

\* ------------------------------------------------ _paginated_request
\* Line 72: response = self._request(fun).
PaginatedRequest ==
    /\ pc = "request" /\ retry = "call"
    /\ \E out \in Outcomes :
         /\ Invoke(fun, out)
         /\ CASE RetriedCall(out) = "return" ->
                    /\ response' = Respond(fun)
                    /\ pc' = "yield"
                    /\ UNCHANGED <<retry, err, fun, yielded, job_id, result>>
              [] RetriedCall(out) = "sleep" -> Throttled
              [] OTHER -> Raise(out)
    /\ UNCHANGED <<entry, remote, requests>>

\* Line 73 under list_roles: the page is yielded and line 26 yields its
\* roles to the caller.
ListRolesYield ==
    /\ entry = "list_roles" /\ pc = "yield"
    /\ yielded' = yielded \o response.Roles
    /\ pc' = "marker"
    /\ UNCHANGED <<entry, remote, requests, retry, fun, response, job_id, result, err, trace>>

\* Lines 74-76: the generator is resumed; with a cursor it goes on with
\* partial(fun, Marker=marker), without one it ends.
PaginatedNext ==
    /\ pc = "marker"
    /\ LET marker == response.Marker IN
         IF Truthy(marker)
         THEN fun' = Partial(fun, marker) /\ pc' = "request" /\ UNCHANGED result
         ELSE pc' = "done" /\ result' = yielded /\ UNCHANGED fun
    /\ UNCHANGED <<entry, remote, requests, retry, response, yielded, job_id, err, trace>>

\* ------------------------------------------ get_last_accessed_details
\* Lines 53-58, run by the first next() on the generator.
SubmitJob ==
    /\ pc = "submit" /\ retry = "call"
    /\ LET f == Bound("generate_service_last_accessed_details", RoleArn, 0) IN
         \E out \in Outcomes :
           /\ Invoke(f, out)
           /\ CASE RetriedCall(out) = "return" ->
                      /\ response' = Respond(f)
                      /\ job_id' = Respond(f).JobId
                      /\ pc' = "poll_sleep"
                      /\ UNCHANGED <<retry, err, fun, yielded, result>>
                [] RetriedCall(out) = "sleep" -> Throttled
                [] OTHER -> Raise(out)
    /\ UNCHANGED <<entry, remote, requests>>

\* Line 60: time.sleep(5) at the head of the poll loop.
PollSleep ==
    /\ pc = "poll_sleep"
    /\ trace' = Append(trace, SleepEvent("poll"))
    /\ pc' = "poll"
    /\ UNCHANGED <<entry, remote, requests, retry, locals, err>>

\* Lines 61-64: response = list(self._request(...)) is the list of the
\* keys of the poll's response, and line 64 subscripts that list with
\* "JobStatus".  No status reaches the tests of lines 64 and 66, so lines
\* 65-69 do not run.
Poll ==
    /\ pc = "poll" /\ retry = "call"
    /\ LET f == Bound("get_service_last_accessed_details", job_id, 0) IN
         \E out \in Outcomes :
           /\ Invoke(f, out)
           /\ CASE RetriedCall(out) = "return" ->
                      /\ response' = DictKeys(Respond(f))
                      /\ pc' = "raised"
                      /\ err' = Subscript(DictKeys(Respond(f)), "list", "JobStatus").raised
                      /\ UNCHANGED <<retry, fun, yielded, job_id, result>>
                [] RetriedCall(out) = "sleep" -> Throttled
                [] OTHER -> Raise(out)
    /\ UNCHANGED <<entry, remote, requests>>

\* ------------------------------------------- calls with keyword arguments
\* describe_role, line 101: get_role(role_name) is line 29,
\* self._request(self._boto_client.get_role, RoleName=role_name).  The
\* call does not bind, so nothing is sent and lines 102-117 do not run.
GetRole ==
    /\ entry = "describe_role" /\ pc = "start"
    /\ BindCall("_request", {"fun", "RoleName"}) # NoErr
    /\ Raise(BindCall("_request", {"fun", "RoleName"}))
    /\ UNCHANGED <<entry, remote, requests, trace>>

\* list_attached_policies consumed by its caller: the first next() runs
\* line 36, self._request(..., RoleName=role_name).
ListAttachedPolicies ==
    /\ entry = "list_attached_policies" /\ pc = "start"
    /\ BindCall("_request", {"fun", "RoleName"}) # NoErr
    /\ Raise(BindCall("_request", {"fun", "RoleName"}))
    /\ UNCHANGED <<entry, remote, requests, trace>>

\* _get_latest_version_id, line 120: list_policy_versions(policy_arn) is
\* line 45, self._request(..., PolicyArn=policy_arn).  Lines 121-122 do
\* not run.
GetLatestVersionId ==
    /\ entry = "_get_latest_version_id" /\ pc = "start"
    /\ BindCall("_request", {"fun", "PolicyArn"}) # NoErr
    /\ Raise(BindCall("_request", {"fun", "PolicyArn"}))
    /\ UNCHANGED <<entry, remote, requests, trace>>

\* ------------------------------------------------------ specification
\* versions_first_page is the number of versions on the first page of the
\* remote's list of a policy's versions; the rest is on a second page.
DefaultRemote ==
    [roles |-> OnePage, inline |-> OnePage, attached |-> OnePage, records |-> OnePage,
     versions |-> <<[VersionId |-> 1, CreateDate |-> 1]>>, versions_first_page |-> 1,
     job |-> <<"COMPLETED">>]

Remotes(e) ==
    CASE e = "list_roles" ->
            { [DefaultRemote EXCEPT !.roles = l] : l \in Listings }
      [] e = "get_last_accessed_details" ->
            { [DefaultRemote EXCEPT !.job = j, !.records = r] :
                j \in JobScripts, r \in {OnePage, TwoPages} }
      [] e = "describe_role" ->
            { [DefaultRemote EXCEPT !.inline = l, !.attached = a, !.versions = v,
                                    !.versions_first_page = n] :
                l \in {<<<<>>>>, OnePage, TwoPages}, a \in {OnePage, TwoPages},
                v \in {vl \in VersionLists : Len(vl) = 2}, n \in 1..2 }
      [] e = "list_attached_policies" ->
            { [DefaultRemote EXCEPT !.attached = l] : l \in Listings }
      [] e = "_get_latest_version_id" ->
            UNION { { [DefaultRemote EXCEPT !.versions = v, !.versions_first_page = n] :
                        n \in 1..Len(v) } : v \in VersionLists }

Start(e) ==
    CASE e = "list_roles" -> "request"
      [] e = "get_last_accessed_details" -> "submit"
      [] OTHER -> "start"

Init ==
    /\ entry \in Entries
    /\ remote \in Remotes(entry)
    /\ pc = Start(entry)
    /\ retry = "call"
    /\ fun = Bound(IF entry = "list_roles" THEN "list_roles" ELSE "", "", 0)
    /\ response = None
    /\ yielded = <<>>
    /\ job_id = ""
    /\ result = None
    /\ err = NoErr
    /\ trace = <<>>
    /\ requests = <<>>

Next ==
    \/ Backoff
    \/ PaginatedRequest
    \/ ListRolesYield
    \/ PaginatedNext
    \/ SubmitJob
    \/ PollSleep
    \/ Poll
    \/ GetRole
    \/ ListAttachedPolicies
    \/ GetLatestVersionId

Spec == Init /\ [][Next]_vars

Done == pc \in {"done", "raised"}

\* ------------------------------------- concurrent describe_role calls
\* Two threads call describe_role on the same IamReader, each for its own
\* role.  The IamReader and its AwsClient are written by __init__ only
\* (lines 10-12, 94); everything a call writes is local to its frame.
RoleNames == <<"Deploy", "Build">>

DescribeRoleSharedError(r) ==
    /\ requests[r].pc = "get_role"
    /\ requests' = [q \in DOMAIN requests |->
                      IF q = r
                      THEN [requests[q] EXCEPT !.pc = "raised",
                               !.err = BindCall("_request", {"fun", "RoleName"})]
                      ELSE [requests[q] EXCEPT
                               !.err = BindCall("_request", {"fun", "RoleName"})]]
    /\ UNCHANGED <<entry, remote, pc, retry, locals, err, trace>>

\* Line 101, the call self._client.get_role(role_name): the thread reads
\* self._client and enters get_role.
EnterGetRole(r) ==
    /\ requests[r].pc = "start"
    /\ requests' = [requests EXCEPT ![r].pc = "get_role"]
    /\ UNCHANGED <<entry, remote, pc, retry, locals, err, trace>>

\* Line 29 in that thread: self._request(self._boto_client.get_role,
\* RoleName=role_name) does not bind; the TypeError leaves describe_role.
RequestGetRole(r) ==
    /\ requests[r].pc = "get_role"
    /\ BindCall("_request", {"fun", "RoleName"}) # NoErr
    /\ requests' = [requests EXCEPT ![r].pc = "raised",
                                    ![r].err = BindCall("_request", {"fun", "RoleName"})]
    /\ UNCHANGED <<entry, remote, pc, retry, locals, err, trace>>

InitConcurrent ==
    /\ entry = "describe_role"
    /\ remote \in Remotes(entry)
    /\ pc = "threads"
    /\ retry = "call"
    /\ fun = Bound("", "", 0)
    /\ response = None
    /\ yielded = <<>>
    /\ job_id = ""
    /\ result = None
    /\ err = NoErr
    /\ trace = <<>>
    /\ requests = [r \in DOMAIN RoleNames |->
                     [role_name |-> RoleNames[r], pc |-> "start",
                      result |-> None, err |-> NoErr]]

NextConcurrent ==
    \/ \E r \in DOMAIN requests : EnterGetRole(r)
    \/ \E r \in DOMAIN requests : RequestGetRole(r)

SpecConcurrent == InitConcurrent /\ [][NextConcurrent]_vars

\* -------------------------------------------------------- properties
SameCall(a, b) ==
    a.op = b.op /\ a.key = b.key /\ a.name = b.name /\ a.Marker = b.Marker

\* How the exception err shows in the trace.
ErrName(e) == IF e.type = "ClientError" THEN e.code ELSE e.type

IsFailure(e) == IsCall(e) /\ e.out \notin {"ok", RateLimitCode}
NoRemoteFailure == \A i \in DOMAIN trace : ~IsFailure(trace[i])

IsFetchOf(e, op, marker) == IsOk(e) /\ e.op = op /\ e.Marker = marker

\* The status the k-th poll reported.
StatusOfPoll(k) == remote.job[IF k < Len(remote.job) THEN k ELSE Len(remote.job)]
PollReported(status) ==
    \E i \in DOMAIN trace :
        /\ IsPoll(trace[i])
        /\ StatusOfPoll(Count(SubSeq(trace, 1, i), IsPoll)) = status

\* C1 - pagination completeness: when list_roles has been consumed to its
\* end over a listing of N pages, the caller holds the concatenation of
\* the N pages' roles in page order, every page was fetched exactly once,
\* there were N successful remote calls, and N calls in all if none was
\* rate-limited.
C1_PaginationComplete ==
    (entry = "list_roles" /\ pc = "done") =>
        /\ err = NoErr
        /\ result = Concat(remote.roles)
        /\ \A k \in 1..Len(remote.roles) :
             Count(trace, LAMBDA e : IsFetchOf(e, "list_roles", k - 1)) = 1
        /\ Count(trace, IsOk) = Len(remote.roles)
        /\ (Count(trace, IsThrottled) = 0 => Len(trace) = Len(remote.roles))

C1_Witness ==
    /\ entry = "list_roles" /\ pc = "done"
    /\ Len(remote.roles) = MaxPages
    /\ Len(remote.roles[1]) = 2 /\ Len(remote.roles[2]) = 1
    /\ result = Concat(remote.roles)
    /\ Len(trace) = MaxPages

\* C2 - retry transparency: a rate-limit error never reaches the caller
\* and never ends the run; an operation that returned after K rate-limit
\* errors was invoked K+1 times in all; and list_roles, consumed to its
\* end, hands over the whole listing with no error after one invocation
\* per page plus one per rate-limit error.
C2_RetryTransparent ==
    /\ err # ClientError(RateLimitCode)
    /\ (trace # <<>> /\ IsThrottled(trace[Len(trace)])) => ~Done
    /\ \A i \in DOMAIN trace :
         IsOk(trace[i]) =>
            Count(trace, LAMBDA e : IsCall(e) /\ SameCall(e, trace[i]))
              = Count(trace, LAMBDA e : IsThrottled(e) /\ SameCall(e, trace[i])) + 1
    /\ (entry = "list_roles" /\ pc = "done") =>
         /\ err = NoErr /\ result = Concat(remote.roles)
         /\ Count(trace, IsCall) = Count(trace, IsThrottled) + Len(remote.roles)

\* K = MaxThrottle rate-limit errors on one operation, then its success.
C2_Witness ==
    /\ entry = "list_roles" /\ pc = "done" /\ err = NoErr
    /\ Len(remote.roles) = 1
    /\ Count(trace, IsThrottled) = MaxThrottle
    /\ Count(trace, IsCall) = MaxThrottle + 1
    /\ result = Concat(remote.roles)

\* C3 - non-retry propagation: an invocation that fails with an error that
\* is no rate-limit error is the last thing the run does: no sleep and no
\* invocation follows it, and that error is what the caller gets.
C3_NonRetryPropagates ==
    \A i \in DOMAIN trace :
        IsFailure(trace[i]) =>
            /\ i = Len(trace)
            /\ pc = "raised"
            /\ ErrName(err) = trace[i].out

\* A failure on attempt 1: the operation was invoked exactly once.
C3_Witness ==
    /\ pc = "raised" /\ err = ClientError("AccessDenied")
    /\ Len(trace) = 1 /\ IsFailure(trace[1])

\* C4 - job polling, COMPLETED path: with the job RUNNING at submission
\* and its polls reporting RUNNING, COMPLETED, and no remote call failing,
\* get_last_accessed_details ends normally with the job's records after
\* 2 polls (then one fetch per page of records) and 2 waits of the poll
\* loop.
C4_CompletedPath ==
    (/\ entry = "get_last_accessed_details"
     /\ remote.job = <<"RUNNING", "COMPLETED">>
     /\ Done /\ NoRemoteFailure) =>
        /\ pc = "done" /\ err = NoErr
        /\ yielded = Concat(remote.records)
        /\ Count(trace, IsPoll) = 2 + Len(remote.records)
        /\ Count(trace, IsPollWait) = 2

\* The exception of line 65.
JobFailed == [type |-> "Exception", code |-> ""]

\* C5 - job polling, FAILED path: once a poll has reported FAILED the run
\* has ended with the job-failure error of line 65, that poll is the last
\* remote call, and nothing was yielded; with FAILED reported by the first
\* poll, after exactly 1 poll.
C5_FailedPath ==
    (entry = "get_last_accessed_details" /\ PollReported("FAILED")) =>
        /\ pc = "raised" /\ err = JobFailed
        /\ IsPoll(trace[Len(trace)])
        /\ yielded = <<>>
        /\ (remote.job = <<"FAILED">> => Count(trace, IsPoll) = 1)

\* C6 - COMPLETED is terminal: a run in which a poll reported COMPLETED
\* and no remote call failed ends normally, having fetched every page of
\* the job's records exactly once after that poll and yielded the records.
C6_CompletedTerminal ==
    (/\ entry = "get_last_accessed_details"
     /\ PollReported("COMPLETED") /\ NoRemoteFailure /\ Done) =>
        /\ pc = "done" /\ err = NoErr
        /\ yielded = Concat(remote.records)
        /\ \A k \in 2..Len(remote.records) :
             Count(trace, LAMBDA e :
                     IsFetchOf(e, "get_service_last_accessed_details", k - 1)) = 1

\* The version of greatest CreateDate.
LatestByCreateDate(versions) ==
    CHOOSE v \in {versions[i] : i \in DOMAIN versions} :
        \A i \in DOMAIN versions : versions[i].CreateDate <= v.CreateDate

\* C7 - latest-version selection: _get_latest_version_id, no remote call
\* failing, returns the VersionId of the version of greatest CreateDate,
\* in whatever order the remote lists the versions.
C7_LatestVersion ==
    (entry = "_get_latest_version_id" /\ Done /\ NoRemoteFailure) =>
        /\ pc = "done" /\ err = NoErr
        /\ result = LatestByCreateDate(remote.versions).VersionId

\* The profile of the role the remote holds.
ExpectedProfile ==
    [RoleArn |-> RoleArn,
     RoleName |-> RoleName,
     InlinePolicyDocuments |->
        [i \in DOMAIN Concat(remote.inline) |->
            <<"inline", RoleName, Concat(remote.inline)[i]>>],
     AttachedPolicyDocuments |->
        [i \in DOMAIN Concat(remote.attached) |->
            <<"version", Concat(remote.attached)[i],
              LatestByCreateDate(remote.versions).VersionId>>],
     LastAccessedDetails |-> Concat(remote.records)]

\* C8 - profile assembly: describe_role, no remote call failing, returns
\* the profile made of the role's ARN, one document per inline policy
\* name, the latest version's document per attached policy and the job's
\* records.
C8_ProfileAssembled ==
    (entry = "describe_role" /\ Done /\ NoRemoteFailure) =>
        /\ pc = "done" /\ err = NoErr
        /\ result = ExpectedProfile

C10_AttachedPaginated ==
    (/\ entry = "list_attached_policies" /\ Len(remote.attached) > 1
     /\ Done /\ NoRemoteFailure) =>
        /\ pc = "done" /\ err = NoErr
        /\ yielded = Concat(remote.attached)
        /\ \A k \in 1..Len(remote.attached) :
             Count(trace, LAMBDA e :
                     IsFetchOf(e, "list_attached_role_policies", k - 1)) = 1

\* The newest version is not on the first page of the version listing.
NewestOnLaterPage ==
    \E i \in DOMAIN remote.versions :
        /\ i > remote.versions_first_page
        /\ remote.versions[i] = LatestByCreateDate(remote.versions)

\* C11 - latest version over all pages: with the newest version of a
\* policy on the second page of its version listing and no remote call
\* failing, _get_latest_version_id returns that version's id, and
\* describe_role returns a profile whose attached policy documents are
\* all documents of that version.
C11_LatestOverAllPages ==
    (NewestOnLaterPage /\ Done /\ NoRemoteFailure) =>
        /\ entry = "_get_latest_version_id" =>
              /\ pc = "done" /\ err = NoErr
              /\ result = LatestByCreateDate(remote.versions).VersionId
        /\ entry = "describe_role" =>
              /\ pc = "done" /\ err = NoErr
              /\ \A i \in DOMAIN result.AttachedPolicyDocuments :
                    result.AttachedPolicyDocuments[i][3]
                        = LatestByCreateDate(remote.versions).VersionId

\* C12 as stated - error kind: a remote error that is no rate-limit error
\* reaches the caller as an error of kind RemoteOperationFailed.
C12_RemoteOperationFailed ==
    \A i \in DOMAIN trace :
        (IsFailure(trace[i]) /\ Done) => err.type = "RemoteOperationFailed"

\* C12 - error kind, amended: a remote error that is no rate-limit error
\* reaches the caller as the very exception fun() raised, of the
\* executor's own kind and with its own code, not wrapped in another.
C12_RawErrorPropagates ==
    \A i \in DOMAIN trace :
        (IsFailure(trace[i]) /\ Done) =>
            /\ err \in Raises \ {ClientError(RateLimitCode)}
            /\ err.type \in {"ClientError", "ConnectionError"}
            /\ ErrName(err) = trace[i].out

\* A later fetch fails, after pages were already handed over.
C12_Witness ==
    /\ pc = "raised" /\ err = ClientError("AccessDenied")
    /\ Len(trace) > 1 /\ IsFailure(trace[Len(trace)])
    /\ yielded # <<>>

IsPrefix(a, b) == Len(a) <= Len(b) /\ a = SubSeq(b, 1, Len(a))

\* C13 - a throttle in mid-pagination is local: after a rate-limited
\* fetch of a page past the first, the next invocation is the same fetch
\* with the same cursor, no later invocation fetches an earlier page, what
\* the consumer holds stays a prefix of the listing, the run does not end
\* in an error unless a remote call failed otherwise, and at the end the
\* consumer holds the whole listing.
C13_ThrottleIsLocal ==
    entry = "list_roles" =>
        /\ \A i \in DOMAIN trace :
             (IsThrottled(trace[i]) /\ trace[i].Marker # NoMarker) =>
                /\ i + 2 <= Len(trace) =>
                      IsCall(trace[i + 2]) /\ SameCall(trace[i + 2], trace[i])
                /\ \A j \in DOMAIN trace :
                      (j > i /\ IsCall(trace[j])) => trace[j].Marker >= trace[i].Marker
                /\ pc = "raised" => ~NoRemoteFailure
        /\ IsPrefix(yielded, Concat(remote.roles))
        /\ pc = "done" => (err = NoErr /\ result = Concat(remote.roles))

\* The fetch of page 2 of 3 is rate-limited and the listing still arrives.
C13_Witness ==
    /\ entry = "list_roles" /\ pc = "done"
    /\ Len(remote.roles) = 3 /\ SumLen(remote.roles) = 3
    /\ \E i \in DOMAIN trace : IsThrottled(trace[i]) /\ trace[i].Marker = 1
    /\ result = Concat(remote.roles)

\* The step of describe_role's algorithm a remote operation belongs to.
StepOf(op) ==
    CASE op = "get_role" -> 1
      [] op \in {"list_role_policies", "get_role_policy"} -> 2
      [] op = "list_attached_role_policies" -> 3
      [] op \in {"list_policy_versions", "get_policy_version"} -> 4
      [] op = "generate_service_last_accessed_details" -> 5
      [] op = "get_service_last_accessed_details" -> 6
      [] OTHER -> 0

\* C14 - step ordering: a describe_role in which no remote call failed
\* has returned a profile after remote calls made in the order of the
\* algorithm's steps, starting with get_role, with the job submitted and
\* polled to COMPLETED before the return.
C14_StepOrder ==
    (entry = "describe_role" /\ Done /\ NoRemoteFailure) =>
        /\ pc = "done" /\ result # None
        /\ trace # <<>> /\ trace[1].op = "get_role"
        /\ \A i, j \in DOMAIN trace :
             (i < j /\ IsCall(trace[i]) /\ IsCall(trace[j])) =>
                StepOf(trace[i].op) <= StepOf(trace[j].op)
        /\ \E i \in DOMAIN trace :
             IsOk(trace[i]) /\ trace[i].op = "generate_service_last_accessed_details"
        /\ PollReported("COMPLETED")

\* C15 - a wait precedes every poll: every invocation of the poll
\* operation comes right after a sleep of 5, and a run whose latest poll
\* reported RUNNING has not ended: the loop goes on to the next poll.
C15_WaitPrecedesPoll ==
    entry = "get_last_accessed_details" =>
        /\ \A i \in DOMAIN trace :
             (IsCall(trace[i]) /\ trace[i].op = "get_service_last_accessed_details") =>
                /\ i > 1
                /\ trace[i - 1].ev = "sleep" /\ trace[i - 1].secs = SleepSeconds
        /\ (/\ trace # <<>> /\ IsPoll(trace[Len(trace)])
            /\ StatusOfPoll(Count(trace, IsPoll)) = "RUNNING") => ~Done

\* C16 - fixed backoff, identical retry: a rate-limited invocation is
\* followed by one sleep of 5 and then by the invocation of the same
\* operation with the same arguments; a retry sleep comes only right
\* after a rate-limited invocation and always lasts 5; so there are as
\* many retry sleeps as rate-limit errors, less the one still to come.
C16_FixedBackoff ==
    /\ \A i \in DOMAIN trace :
         IsThrottled(trace[i]) =>
            /\ i + 1 <= Len(trace) =>
                  IsBackoff(trace[i + 1]) /\ trace[i + 1].secs = SleepSeconds
            /\ i + 2 <= Len(trace) =>
                  IsCall(trace[i + 2]) /\ SameCall(trace[i + 2], trace[i])
    /\ \A i \in DOMAIN trace :
         IsBackoff(trace[i]) =>
            i > 1 /\ IsThrottled(trace[i - 1]) /\ trace[i].secs = SleepSeconds
    /\ Count(trace, IsBackoff)
         = Count(trace, IsThrottled)
             - (IF trace # <<>> /\ IsThrottled(trace[Len(trace)]) THEN 1 ELSE 0)

\* The submission is rate-limited MaxThrottle times, then succeeds.
C16_Witness ==
    /\ entry = "get_last_accessed_details" /\ pc = "poll_sleep"
    /\ Count(trace, IsThrottled) = MaxThrottle
    /\ Count(trace, IsBackoff) = MaxThrottle
    /\ Len(trace) = 2 * MaxThrottle + 1
    /\ IsOk(trace[Len(trace)])

\* C17 - cursor threading: the first fetch of list_roles carries no
\* cursor; every later invocation carries exactly the cursor of the page
\* the latest successful fetch returned, and that page did carry one; the
\* other arguments are those of the first fetch.
C17_CursorThreading ==
    \A i \in DOMAIN trace :
        (IsCall(trace[i]) /\ trace[i].op = "list_roles") =>
            LET prev == {j \in 1..(i - 1) : IsOk(trace[j]) /\ trace[j].op = "list_roles"}
            IN  /\ trace[i].key = trace[1].key /\ trace[i].name = trace[1].name
                /\ IF prev = {} THEN trace[i].Marker = NoMarker
                   ELSE LET j == CHOOSE m \in prev : \A n \in prev : n <= m
                            cursor == Page(remote.roles, trace[j].Marker).Marker
                        IN  cursor # NoMarker /\ trace[i].Marker = cursor

\* Three pages, the middle one empty, fetched with cursors none, 1, 2.
C17_Witness ==
    /\ entry = "list_roles" /\ pc = "done"
    /\ Len(remote.roles) = 3 /\ remote.roles[2] = <<>>
    /\ \A m \in 0..2 : \E i \in DOMAIN trace : IsFetchOf(trace[i], "list_roles", m)
    /\ Count(trace, IsCall) = 3

IsDocumentFetch(e) == IsOk(e) /\ e.op = "get_role_policy"

\* C18 - inline documents keep order: a describe_role in which no remote
\* call failed has returned a profile whose inline policy documents are
\* the documents of the role's inline policy names in listing order over
\* all pages, each fetched once with the role name and that policy name.
C18_InlineDocumentsInOrder ==
    (entry = "describe_role" /\ Done /\ NoRemoteFailure) =>
        /\ pc = "done" /\ err = NoErr
        /\ result.InlinePolicyDocuments = ExpectedProfile.InlinePolicyDocuments
        /\ LET fetches == SelectSeq(trace, IsDocumentFetch)
           IN  /\ Len(fetches) = Len(Concat(remote.inline))
               /\ \A i \in DOMAIN fetches :
                     /\ fetches[i].key = RoleName
                     /\ fetches[i].name = Concat(remote.inline)[i]

IsSubmit(e) == IsCall(e) /\ e.op = "generate_service_last_accessed_details"
IsStatusCall(e) == IsCall(e) /\ e.op = "get_service_last_accessed_details"

\* C20 - single submission: a run of get_last_accessed_details has at
\* most one successful submission; a submission is invoked again only
\* right after its own rate-limit error and sleep; no submission follows
\* an invocation of the poll operation, rate-limited or not; and every
\* invocation of the poll operation comes after the successful submission
\* and carries the JobId it returned.
C20_SingleSubmission ==
    entry = "get_last_accessed_details" =>
        /\ Count(trace, LAMBDA e : IsSubmit(e) /\ IsOk(e)) <= 1
        /\ \A i \in DOMAIN trace :
             (IsSubmit(trace[i]) /\ i > 1) =>
                i > 2 /\ IsSubmit(trace[i - 2]) /\ IsThrottled(trace[i - 2])
        /\ \A i, j \in DOMAIN trace :
             (i < j /\ IsStatusCall(trace[i])) => ~IsSubmit(trace[j])
        /\ \A i \in DOMAIN trace :
             IsStatusCall(trace[i]) =>
                \E j \in 1..(i - 1) :
                    /\ IsSubmit(trace[j]) /\ IsOk(trace[j])
                    /\ trace[i].key = Respond(Bound(trace[j].op, trace[j].key, 0)).JobId

\* A rate-limited poll is retried on the same job, with no new submission.
C20_Witness ==
    /\ entry = "get_last_accessed_details" /\ pc = "raised"
    /\ Count(trace, IsSubmit) = 1
    /\ Count(trace, IsStatusCall) = 2
    /\ \E i \in DOMAIN trace : IsStatusCall(trace[i]) /\ IsThrottled(trace[i])
    /\ IsPoll(trace[Len(trace)])

\* What describe_role comes to when it runs alone: the end of GetRole.
DescribeRoleAlone ==
    [pc |-> "raised", result |-> None, err |-> BindCall("_request", {"fun", "RoleName"})]

====
